---- MODULE Spec2Model ----
(***************************************************************************)
(* Daily Lifestyle Tracker (src/app.py): the program calendar, the record  *)
(* store kept in st.session_state.tracker_data and its JSON file, the      *)
(* daily entry workflow and the statistics aggregator.                     *)
(*                                                                         *)
(* Representation.                                                         *)
(*  - A Python str is a sequence of one-character strings.                 *)
(*  - A datetime.date is a record [year, month, day].                      *)
(*  - A Python dict is a sequence of [key, val] items in insertion order   *)
(*    (dicts keep insertion order; re-assigning a key keeps its place).    *)
(*  - An optional value is <<>> (None) or <<v>>.                           *)
(*  - Weights and blood sugar readings are floats entered in steps of 0.1; *)
(*    they are held in tenths.  True division yields an exact rational     *)
(*    [num, den] in lowest terms (float rounding is not modelled).         *)
(***************************************************************************)
EXTENDS Integers, Sequences, FiniteSets, TLC

VARIABLES
    tracker_data,   \* st.session_state.tracker_data
    file,           \* lifestyle_tracker_data.json
    selected_date,  \* the date widget of the daily entry page
    form,           \* the values of the daily entry form as last submitted
    target_date,    \* argument of a get_week_number call
    week_result,    \* outcome of that call
    data_dict,      \* argument of a get_summary_stats call
    stats           \* outcome of that call

vars == <<tracker_data, file, selected_date, form,
          target_date, week_result, data_dict, stats>>

(***************************************************************************)
(* Python values                                                           *)
(***************************************************************************)
None == <<>>

Some(v) == <<v>>

PyDate(y, m, d) == [year |-> y, month |-> m, day |-> d]

Digits == <<"0", "1", "2", "3", "4", "5", "6", "7", "8", "9">>

IsDigit(c) == \E i \in 1..10 : Digits[i] = c

DigitVal(c) == (CHOOSE i \in 1..10 : Digits[i] = c) - 1

RECURSIVE NumVal(_)
NumVal(s) ==
    IF s = <<>> THEN 0
    ELSE 10 * NumVal(SubSeq(s, 1, Len(s) - 1)) + DigitVal(s[Len(s)])

\* "%02d" / "%04d": the decimal digits of n, zero-padded to the given width
RECURSIVE ZeroPad(_, _)
ZeroPad(n, width) ==
    IF width = 0 THEN <<>>
    ELSE Append(ZeroPad(n \div 10, width - 1), Digits[(n % 10) + 1])

(***************************************************************************)
(* datetime.date                                                           *)
(***************************************************************************)
IsLeap(y) == (y % 4 = 0) /\ ((y % 100 # 0) \/ (y % 400 = 0))

DaysInMonth(y, m) ==
    IF m = 2 THEN (IF IsLeap(y) THEN 29 ELSE 28)
    ELSE IF m \in {4, 6, 9, 11} THEN 30 ELSE 31

DaysBeforeYear(y) ==
    365 * (y - 1) + ((y - 1) \div 4) - ((y - 1) \div 100) + ((y - 1) \div 400)

\* days of the year before the first of month m
DaysBeforeMonth(y, m) ==
    <<0, 31, 59, 90, 120, 151, 181, 212, 243, 273, 304, 334>>[m]
    + (IF m > 2 /\ IsLeap(y) THEN 1 ELSE 0)

\* date.toordinal()
ToOrdinal(d) == DaysBeforeYear(d.year) + DaysBeforeMonth(d.year, d.month) + d.day

\* (a - b).days
DaysBetween(a, b) == ToOrdinal(a) - ToOrdinal(b)

\* date.fromordinal(n); the year lies between n/366 + 1 and n/365 + 1
FromOrdinal(n) ==
    LET y == CHOOSE yy \in ((n \div 366) + 1)..((n \div 365) + 1) :
                 DaysBeforeYear(yy) < n /\ n <= DaysBeforeYear(yy + 1)
        doy == n - DaysBeforeYear(y)
        m == CHOOSE mm \in 1..12 :
                 DaysBeforeMonth(y, mm) < doy
                 /\ doy <= DaysBeforeMonth(y, mm) + DaysInMonth(y, mm)
    IN PyDate(y, m, doy - DaysBeforeMonth(y, m))

\* d + timedelta(days=n)
AddDays(d, n) == FromOrdinal(ToOrdinal(d) + n)

\* d.strftime("%Y-%m-%d")
strftime(d) ==
    ZeroPad(d.year, 4) \o <<"-">> \o ZeroPad(d.month, 2) \o <<"-">> \o ZeroPad(d.day, 2)

\* datetime.strptime(s, "%Y-%m-%d").date(): a date, or ValueError (ok = FALSE)
ValueError == [ok |-> FALSE, date |-> PyDate(0, 0, 0)]

strptime(s) ==
    LET dashes == {i \in 1..Len(s) : s[i] = "-"} IN
    IF Cardinality(dashes) # 2 THEN ValueError
    ELSE
      LET p == CHOOSE i \in dashes : \A j \in dashes : i <= j
          q == CHOOSE i \in dashes : \A j \in dashes : j <= i
          ys == SubSeq(s, 1, p - 1)
          ms == SubSeq(s, p + 1, q - 1)
          ds == SubSeq(s, q + 1, Len(s))
          digits(t) == \A i \in 1..Len(t) : IsDigit(t[i])
      IN IF ~(digits(ys) /\ digits(ms) /\ digits(ds)) THEN ValueError
         ELSE IF Len(ys) # 4 \/ Len(ms) \notin {1, 2} \/ Len(ds) \notin {1, 2}
           THEN ValueError
         ELSE
           LET y == NumVal(ys)
               m == NumVal(ms)
               d == NumVal(ds)
           IN IF y < 1 \/ m \notin 1..12 \/ d < 1 THEN ValueError
              ELSE IF d > DaysInMonth(y, m) THEN ValueError
              ELSE [ok |-> TRUE, date |-> PyDate(y, m, d)]

(***************************************************************************)
(* Program calendar                                                        *)
(***************************************************************************)
ProgramWeeks == 30

\* get_program_info()[0]
start_date == PyDate(2025, 6, 2)

\* get_program_info()[1]
end_date == AddDays(start_date, 7 * ProgramWeeks)

Max(a, b) == IF a >= b THEN a ELSE b

Min(a, b) == IF a <= b THEN a ELSE b

\* lines 54-56 without the clamp of line 56
WeekOfDateUnclamped(d) == (DaysBetween(d, start_date) \div 7) + 1

\* lines 54-56, target_date a date
WeekOfDate(d) ==
    LET days_diff == DaysBetween(d, start_date)
        week_num == (days_diff \div 7) + 1
    IN Max(1, Min(ProgramWeeks, week_num))

\* An argument of get_week_number: a date object or a str
DateArg(d) == [isstr |-> FALSE, date |-> d, chars |-> <<>>]

StrArg(s) == [isstr |-> TRUE, date |-> PyDate(0, 0, 0), chars |-> s]

\* get_week_number(target_date): the week returned, or the exception raised
get_week_number(arg) ==
    IF arg.isstr
    THEN LET parsed == strptime(arg.chars) IN
         IF parsed.ok THEN [raised |-> FALSE, value |-> WeekOfDate(parsed.date)]
         ELSE [raised |-> TRUE, value |-> 0]
    ELSE [raised |-> FALSE, value |-> WeekOfDate(arg.date)]

StrengthStartWeek == 3

\* strength training offered in every week
StrengthAlwaysAvailable(d) == get_week_number(DateArg(d)).value >= 1

\* is_strength_available(target_date), target_date a date
is_strength_available(d) == get_week_number(DateArg(d)).value >= StrengthStartWeek

(***************************************************************************)
(* Exact rationals, the value of Python's true division                    *)
(***************************************************************************)
RECURSIVE GCD(_, _)
GCD(a, b) == IF b = 0 THEN a ELSE GCD(b, a % b)

Abs(n) == IF n < 0 THEN -n ELSE n

\* n / d, d > 0, in lowest terms
Rat(n, d) ==
    LET g == GCD(Abs(n), d) IN [num |-> n \div g, den |-> d \div g]

RatInt(n) == [num |-> n, den |-> 1]

RatAdd(a, b) == Rat(a.num * b.den + b.num * a.den, a.den * b.den)

(***************************************************************************)
(* dict                                                                    *)
(***************************************************************************)
EmptyDict == <<>>

Item(k, v) == [key |-> k, val |-> v]

DictKeys(d) == {d[i].key : i \in 1..Len(d)}

\* list(d.values())
DictValues(d) == [i \in 1..Len(d) |-> d[i].val]

HasKey(d, k) == \E i \in 1..Len(d) : d[i].key = k

\* d[k], k in d
DictGet(d, k) == d[CHOOSE i \in 1..Len(d) : d[i].key = k].val

\* d[k] = v: an existing key keeps its position, a new key goes last
DictSet(d, k, v) ==
    IF HasKey(d, k)
    THEN [i \in 1..Len(d) |-> IF d[i].key = k THEN Item(k, v) ELSE d[i]]
    ELSE Append(d, Item(k, v))

(***************************************************************************)
(* Aggregator                                                              *)
(***************************************************************************)
RECURSIVE SeqSum(_)
SeqSum(s) == IF s = <<>> THEN 0 ELSE s[1] + SeqSum(Tail(s))

\* the loop of lines 81-84 taking `weight >= 0` for `weight > 0`
RECURSIVE PresentWeightsWithZero(_)
PresentWeightsWithZero(values) ==
    IF values = <<>> THEN <<>>
    ELSE LET weight == values[1].weight
             rest == PresentWeightsWithZero(Tail(values))
         IN IF weight # None /\ weight[1] >= 0 THEN <<weight[1]>> \o rest ELSE rest

\* the loop of lines 81-84: the weights that are not None and > 0, in
\* the order of data_dict.values()
RECURSIVE PresentWeights(_)
PresentWeights(values) ==
    IF values = <<>> THEN <<>>
    ELSE LET weight == values[1].weight
             rest == PresentWeights(Tail(values))
         IN IF weight # None /\ weight[1] > 0 THEN <<weight[1]>> \o rest ELSE rest

\* the loop of lines 81-88 for blood_sugar
RECURSIVE PresentBloodSugars(_)
PresentBloodSugars(values) ==
    IF values = <<>> THEN <<>>
    ELSE LET blood_sugar == values[1].blood_sugar
             rest == PresentBloodSugars(Tail(values))
         IN IF blood_sugar # None /\ blood_sugar[1] > 0
            THEN <<blood_sugar[1]>> \o rest ELSE rest

StepsPerMinute == 100

\* the composite with steps converted at 60 to the minute
ExerciseTimeOtherDivisor(treadmill, steps, lunch_walk) ==
    RatAdd(RatAdd(RatInt(treadmill), Rat(steps, 60)), RatInt(lunch_walk))

\* total_treadmill + (total_steps / 100) + total_lunch_walks
ExerciseTime(treadmill, steps, lunch_walk) ==
    RatAdd(RatAdd(RatInt(treadmill), Rat(steps, StepsPerMinute)), RatInt(lunch_walk))

\* sum(xs) / len(xs) if xs else 0
MeanOrZero(xs) == IF xs # <<>> THEN Rat(SeqSum(xs), Len(xs)) ELSE RatInt(0)

\* get_summary_stats(data_dict): {} for an empty dict, else the 14 figures
get_summary_stats(dict) ==
    IF dict = EmptyDict THEN EmptyDict
    ELSE
      LET values == DictValues(dict)
          total_days == Len(dict)
          total_treadmill == SeqSum([i \in 1..Len(values) |-> values[i].treadmill_time])
          total_steps == SeqSum([i \in 1..Len(values) |-> values[i].steps])
          total_lunch_walks == SeqSum([i \in 1..Len(values) |-> values[i].lunch_walk_time])
          strength_sessions ==
              Cardinality({i \in 1..Len(values) : values[i].strength_training})
          total_exercise_time ==
              ExerciseTime(total_treadmill, total_steps, total_lunch_walks)
          weights == PresentWeights(values)
          blood_sugars == PresentBloodSugars(values)
      IN [total_days |-> total_days,
          total_treadmill |-> total_treadmill,
          avg_treadmill |-> Rat(total_treadmill, total_days),
          total_steps |-> total_steps,
          avg_steps |-> Rat(total_steps, total_days),
          total_lunch_walks |-> total_lunch_walks,
          avg_lunch_walks |-> Rat(total_lunch_walks, total_days),
          total_exercise_time |-> total_exercise_time,
          avg_exercise_time |->
              Rat(total_exercise_time.num, total_exercise_time.den * total_days),
          strength_sessions |-> strength_sessions,
          avg_weight |-> MeanOrZero(weights),
          latest_weight |-> IF weights # <<>> THEN weights[Len(weights)] ELSE 0,
          avg_blood_sugar |-> MeanOrZero(blood_sugars),
          weight_change |->
              IF Len(weights) > 1 THEN weights[Len(weights)] - weights[1] ELSE 0]

(***************************************************************************)
(* Storage: json.dump / json.load of the record mapping                    *)
(***************************************************************************)
\* A JSON value as written in the file: its kind, and its number or its text
JsonNull == [t |-> "null", n |-> 0, s |-> <<>>]

JsonInt(n) == [t |-> "int", n |-> n, s |-> <<>>]

JsonFloat(x) == [t |-> "float", n |-> x, s |-> <<>>]

JsonString(s) == [t |-> "string", n |-> 0, s |-> s]

JsonBool(b) == [t |-> IF b THEN "true" ELSE "false", n |-> 0, s |-> <<>>]

\* an Optional[float] with None written as the number 0.0
JsonOptFloatZero(v) == IF v = None THEN JsonFloat(0) ELSE JsonFloat(v[1])

\* an Optional[float]: None is written null
JsonOptFloat(v) == IF v = None THEN JsonNull ELSE JsonFloat(v[1])

\* what json.load makes of a number-or-null value
PyOptFloat(j) == IF j.t = "null" THEN None ELSE Some(j.n)

\* json.dump of one record (all its values are JSON-serialisable)
DumpRecord(r) ==
    [date |-> JsonString(r.date),
     week |-> JsonInt(r.week),
     treadmill_time |-> JsonInt(r.treadmill_time),
     steps |-> JsonInt(r.steps),
     lunch_walk_time |-> JsonInt(r.lunch_walk_time),
     strength_training |-> JsonBool(r.strength_training),
     weight |-> JsonOptFloat(r.weight),
     blood_sugar |-> JsonOptFloat(r.blood_sugar),
     mood_energy |-> JsonString(r.mood_energy)]

\* json.load of one record
LoadRecord(j) ==
    [date |-> j.date.s,
     week |-> j.week.n,
     treadmill_time |-> j.treadmill_time.n,
     steps |-> j.steps.n,
     lunch_walk_time |-> j.lunch_walk_time.n,
     strength_training |-> (j.strength_training.t = "true"),
     weight |-> PyOptFloat(j.weight),
     blood_sugar |-> PyOptFloat(j.blood_sugar),
     mood_energy |-> j.mood_energy.s]

NoFile == [exists |-> FALSE, content |-> <<>>]

\* save_data(): the file after writing the mapping, keys in dict order
\* (the write succeeds; an OSError is reported by st.error and not modelled)
save_data(data) ==
    [exists |-> TRUE,
     content |-> [i \in 1..Len(data) |-> Item(data[i].key, DumpRecord(data[i].val))]]

\* load_data(): {} when there is no file
load_data(f) ==
    IF f.exists
    THEN [i \in 1..Len(f.content) |->
              Item(f.content[i].key, LoadRecord(f.content[i].val))]
    ELSE EmptyDict

(***************************************************************************)
(* Daily entry                                                             *)
(***************************************************************************)
NumDates == 3

\* days after start_date of the dates picked in the date widget
EntryOffsets == <<14, 0, 210, 15, 29, 13>>

EntryDates == {AddDays(start_date, EntryOffsets[i]) : i \in 1..NumDates}

\* what is typed into the form: treadmill minutes, steps, lunch walk
\* minutes, weight, blood sugar, mood, and the strength checkbox; a number
\* widget left empty holds None
FormInputs ==
    {<<0, 0, 0, None, Some(0), <<>>, FALSE>>,
     <<30, 250, 15, Some(700), Some(55), <<"o", "k">>, TRUE>>,
     <<0, 1000, 20, Some(685), None, <<>>, TRUE>>}

EmptyForm ==
    [treadmill_time |-> 0, steps |-> 0, lunch_walk_time |-> 0,
     strength_training |-> FALSE, weight |-> Some(0), blood_sugar |-> Some(0),
     mood_energy |-> <<>>]

\* `x if x and x > 0 else None`
PositiveOrNone(x) == IF x # None /\ x[1] # 0 /\ x[1] > 0 THEN x ELSE None

\* the record of lines 225-235
NewRecord(date_str, week_num, f) ==
    [date |-> date_str,
     week |-> week_num,
     treadmill_time |-> f.treadmill_time,
     steps |-> f.steps,
     lunch_walk_time |-> f.lunch_walk_time,
     strength_training |-> f.strength_training,
     weight |-> PositiveOrNone(f.weight),
     blood_sugar |-> PositiveOrNone(f.blood_sugar),
     mood_energy |-> f.mood_energy]

\* an update that keeps the stored weight and blood sugar where the new
\* record has none
StoreRecordMerged(data, date_str, record) ==
    IF HasKey(data, date_str)
    THEN LET old == DictGet(data, date_str)
         IN DictSet(data, date_str,
                    [record EXCEPT
                        !.weight = IF @ = None THEN old.weight ELSE @,
                        !.blood_sugar = IF @ = None THEN old.blood_sugar ELSE @])
    ELSE DictSet(data, date_str, record)

\* tracker_data[date_str] = {...}
StoreRecord(data, date_str, record) == DictSet(data, date_str, record)

(***************************************************************************)
(* Views (read-only)                                                       *)
(***************************************************************************)
\* str(n), n >= 0
RECURSIVE DecStr(_)
DecStr(n) ==
    IF n < 10 THEN <<Digits[n + 1]>>
    ELSE Append(DecStr(n \div 10), Digits[(n % 10) + 1])

\* sorted(d.items()) for a dict with integer keys
RECURSIVE SortedItems(_)
SortedItems(d) ==
    IF d = <<>> THEN <<>>
    ELSE LET i == CHOOSE k \in 1..Len(d) : \A j \in 1..Len(d) : d[k].key <= d[j].key
         IN <<d[i]>> \o SortedItems(SubSeq(d, 1, i - 1) \o SubSeq(d, i + 1, Len(d)))

\* the per-day figure of the weekly daily breakdown (lines 317-319)
total_day_exercise(data) ==
    RatAdd(RatAdd(RatInt(data.treadmill_time), Rat(data.steps, StepsPerMinute)),
           RatInt(data.lunch_walk_time))

\* the per-day figure of the all-time chart (lines 454-456)
total_exercise(data) ==
    RatAdd(RatAdd(RatInt(data.treadmill_time), Rat(data.steps, StepsPerMinute)),
           RatInt(data.lunch_walk_time))

\* show_weekly_summary: week_data of the selected week
RECURSIVE WeekDays(_, _, _)
WeekDays(data, week_start, i) ==
    IF i = 7 THEN EmptyDict
    ELSE LET date_str == strftime(AddDays(week_start, i))
             rest == WeekDays(data, week_start, i + 1)
         IN IF HasKey(data, date_str)
            THEN <<Item(date_str, DictGet(data, date_str))>> \o rest
            ELSE rest

WeekData(data, selected_week) ==
    WeekDays(data, AddDays(start_date, 7 * (selected_week - 1)), 0)

\* show_monthly_summary: the (year, month) pairs offered for selection
MonthsAvailable(data) ==
    {<<strptime(data[i].key).date.year, strptime(data[i].key).date.month>> :
        i \in 1..Len(data)}

\* show_monthly_summary: month_data
MonthData(data, year, month) ==
    LET InMonth(item) ==
            LET date_obj == strptime(item.key).date
            IN date_obj.year = year /\ date_obj.month = month
    IN SelectSeq(data, InMonth)

\* lines 398-400 with the append under an `else`
AddWeekEntryElse(weekly_data, week, data) ==
    IF ~HasKey(weekly_data, week)
    THEN DictSet(weekly_data, week, <<>>)
    ELSE DictSet(weekly_data, week, Append(DictGet(weekly_data, week), data))

\* lines 398-400: one entry filed under its week
AddWeekEntry(weekly_data, week, data) ==
    LET created == IF ~HasKey(weekly_data, week)
                   THEN DictSet(weekly_data, week, <<>>)
                   ELSE weekly_data
    IN DictSet(created, week, Append(DictGet(created, week), data))

\* show_monthly_summary: weekly_data, the month's records by stored week
RECURSIVE GroupByWeek(_, _)
GroupByWeek(items, weekly_data) ==
    IF items = <<>> THEN weekly_data
    ELSE GroupByWeek(Tail(items),
                     AddWeekEntry(weekly_data, items[1].val.week, items[1].val))

WeeklyData(month_data) == GroupByWeek(month_data, EmptyDict)

\* {f"day_{i}": entry for i, entry in enumerate(week_entries)}
EnumerateDays(week_entries) ==
    [i \in 1..Len(week_entries) |->
        Item(<<"d", "a", "y", "_">> \o DecStr(i - 1), week_entries[i])]

\* show_monthly_summary: one row per week, in week order, with its week_stats
WeeklySummary(month_data) ==
    LET sorted == SortedItems(WeeklyData(month_data))
    IN [i \in 1..Len(sorted) |->
           [week |-> sorted[i].key,
            week_stats |-> get_summary_stats(EnumerateDays(sorted[i].val))]]


Idle == /\ target_date = DateArg(start_date)
        /\ week_result = None
        /\ data_dict = EmptyDict
        /\ stats = None

NoSession ==
    /\ file = NoFile
    /\ tracker_data = load_data(file)
    /\ selected_date = start_date
    /\ form = EmptyForm

Init == NoSession /\ Idle

\* show_daily_entry with the form submitted: the date picked and the values
\* typed in (the checkbox is shown from week 3 on only)
SaveDailyEntry(d, in) ==
    LET date_str == strftime(d)
        week_num == get_week_number(DateArg(d)).value
        strength_training == IF is_strength_available(d) THEN in[7] ELSE FALSE
        f == [treadmill_time |-> in[1], steps |-> in[2], lunch_walk_time |-> in[3],
              strength_training |-> strength_training,
              weight |-> in[4], blood_sugar |-> in[5], mood_energy |-> in[6]]
    IN /\ DaysBetween(d, start_date) >= 0
       /\ DaysBetween(end_date, d) >= 0
       /\ selected_date' = d
       /\ form' = f
       /\ tracker_data' = StoreRecord(tracker_data, date_str,
                                      NewRecord(date_str, week_num, f))
       /\ file' = save_data(tracker_data')
       /\ UNCHANGED <<target_date, week_result, data_dict, stats>>

\* a new browser session: session_state is empty, the mapping is loaded from
\* the file and the widgets show their defaults (the date widget shows
\* start_date: the session is opened on a day outside the program window)
NewSession ==
    /\ tracker_data' = load_data(file)
    /\ selected_date' = start_date
    /\ form' = EmptyForm
    /\ UNCHANGED <<file, target_date, week_result, data_dict, stats>>

Next ==
    \/ \E d \in EntryDates, in \in FormInputs : SaveDailyEntry(d, in)
    \/ NewSession

Spec == Init /\ [][Next]_vars

(***************************************************************************)
(* get_week_number applied to one argument                                 *)
(***************************************************************************)
CalYears == 1

CalDates ==
    {PyDate(y, m, d) : y \in (start_date.year - CalYears)..(start_date.year + CalYears),
                       m \in 1..12, d \in 1..31}

\* strings that are not "%Y-%m-%d" dates, and dates written without padding
OtherStrings ==
    {<<>>,
     <<"n", "o", "t", "-", "a", "-", "d", "a", "t", "e">>,
     <<"2", "0", "2", "5", "0", "6", "0", "2">>,
     <<"2", "0", "2", "5", "-", "1", "3", "-", "0", "1">>,
     <<"2", "0", "2", "5", "-", "0", "2", "-", "3", "0">>,
     <<"0", "2", "/", "0", "6", "/", "2", "0", "2", "5">>,
     <<"2", "0", "2", "5", "-", "6", "-", "2">>,
     <<"2", "0", "2", "6", "-", "1", "-", "1", "5">>}

CalInputs ==
    {DateArg(d) : d \in {c \in CalDates : c.day <= DaysInMonth(c.year, c.month)}}
    \cup {StrArg(strftime(d)) : d \in CalDates}
    \cup {StrArg(s) : s \in OtherStrings}

CalInit ==
    /\ NoSession
    /\ target_date \in CalInputs
    /\ week_result = None
    /\ data_dict = EmptyDict
    /\ stats = None

CallGetWeekNumber ==
    /\ week_result = None
    /\ week_result' = Some(get_week_number(target_date))
    /\ UNCHANGED <<tracker_data, file, selected_date, form, target_date,
                   data_dict, stats>>

CalNext == CallGetWeekNumber

SpecCal == CalInit /\ [][CalNext]_vars

(***************************************************************************)
(* get_summary_stats applied to one mapping                                *)
(***************************************************************************)
MaxAggLen == 2

AggRecord(w, b) ==
    [date |-> <<>>, week |-> 1, treadmill_time |-> 0, steps |-> 0,
     lunch_walk_time |-> 0, strength_training |-> FALSE,
     weight |-> w, blood_sugar |-> b, mood_energy |-> <<>>]

AggRecords ==
    {AggRecord(w, b) : w \in {None, Some(0), Some(685), Some(700)},
                       b \in {None, Some(0), Some(55)}}

AggInputs ==
    UNION {{[i \in 1..n |-> Item(<<"d", Digits[i]>>, f[i])] : f \in [1..n -> AggRecords]}
           : n \in 0..MaxAggLen}

AggInit ==
    /\ NoSession
    /\ target_date = DateArg(start_date)
    /\ week_result = None
    /\ data_dict \in AggInputs
    /\ stats = None

CallGetSummaryStats ==
    /\ stats = None
    /\ stats' = Some(get_summary_stats(data_dict))
    /\ UNCHANGED <<tracker_data, file, selected_date, form, target_date,
                   week_result, data_dict>>

AggNext == CallGetSummaryStats

SpecAgg == AggInit /\ [][AggNext]_vars

(***************************************************************************)
(* Properties                                                              *)
(***************************************************************************)
\* a < b for dates, compared as (year, month, day)
DateLess(a, b) ==
    \/ a.year < b.year
    \/ a.year = b.year /\ a.month < b.month
    \/ a.year = b.year /\ a.month = b.month /\ a.day < b.day

\* the date an argument of get_week_number denotes
ArgDate(arg) == IF arg.isstr THEN strptime(arg.chars).date ELSE arg.date

ArgIsDate(arg) == IF arg.isstr THEN strptime(arg.chars).ok ELSE TRUE

\* C1: for every date d, get_week_number(d) is floor((d - start)/7) + 1
\* clamped to [1, 30]: always within 1..30, 1 for every d before the program
\* start, 30 for every d at or after start + 210 days.
C1_WeekClamped ==
    (week_result # None /\ ArgIsDate(target_date)) =>
        LET d == ArgDate(target_date)
            diff == DaysBetween(d, start_date)
            w == week_result[1].value
        IN /\ ~week_result[1].raised
           /\ w \in 1..30
           /\ (DateLess(d, PyDate(2025, 6, 2)) => w = 1)
           /\ (~DateLess(d, PyDate(2025, 12, 29)) => w = 30)
           /\ (diff \in 0..209 => 7 * (w - 1) <= diff /\ diff < 7 * w)
           /\ (diff < 0 => w = 1)
           /\ (diff >= 210 => w = 30)

\* get_week_number was applied to a date after the program window and
\* answered 30
C1_Witness ==
    /\ week_result # None
    /\ ~target_date.isstr
    /\ DateLess(PyDate(2026, 1, 1), target_date.date)
    /\ week_result[1].value = 30

\* C7: get_week_number never raises: for every input, malformed date strings
\* included, it returns a week number in [1, 30].
C7_NeverRaises ==
    week_result # None =>
        /\ ~week_result[1].raised
        /\ week_result[1].value \in 1..30

SummaryFields ==
    {"total_days", "total_treadmill", "avg_treadmill", "total_steps", "avg_steps",
     "total_lunch_walks", "avg_lunch_walks", "total_exercise_time",
     "avg_exercise_time", "strength_sessions", "avg_weight", "latest_weight",
     "avg_blood_sugar", "weight_change"}

\* C2: aggregating an empty record set returns a Summary Statistics whose
\* day_count is 0 and whose every total and averaged field is present and 0.
C2_EmptyAllZero ==
    (stats # None /\ data_dict = EmptyDict) =>
        LET r == stats[1] IN
        /\ DOMAIN r = SummaryFields
        /\ r.total_days = 0
        /\ r.total_treadmill = 0 /\ r.total_steps = 0 /\ r.total_lunch_walks = 0
        /\ r.strength_sessions = 0
        /\ r.total_exercise_time = RatInt(0)
        /\ r.avg_treadmill = RatInt(0) /\ r.avg_steps = RatInt(0)
        /\ r.avg_lunch_walks = RatInt(0) /\ r.avg_exercise_time = RatInt(0)
        /\ r.avg_weight = RatInt(0) /\ r.avg_blood_sugar = RatInt(0)
        /\ r.latest_weight = 0 /\ r.weight_change = 0

\* the sum of f over the index set S
RECURSIVE SumOver(_, _)
SumOver(S, f) ==
    IF S = {} THEN 0
    ELSE LET i == CHOOSE x \in S : TRUE IN f[i] + SumOver(S \ {i}, f)

\* the mean of the values f[i], i in S, as a fraction; 0 for no value
MeanOf(S, f) ==
    IF S = {} THEN [num |-> 0, den |-> 1]
    ELSE CHOOSE q \in {[num |-> n, den |-> d] : n \in 0..SumOver(S, f),
                                               d \in 1..Cardinality(S)} :
            /\ q.num * Cardinality(S) = SumOver(S, f) * q.den
            /\ \A d \in 1..(q.den - 1) : (SumOver(S, f) * d) % Cardinality(S) # 0

\* a 0 in an optional field replaced by None
ZeroAsAbsent(dict) ==
    [i \in 1..Len(dict) |->
        Item(dict[i].key,
             [dict[i].val EXCEPT
                 !.weight = IF @ = Some(0) THEN None ELSE @,
                 !.blood_sugar = IF @ = Some(0) THEN None ELSE @])]

\* C4: weight_avg and blood_sugar_avg are means over only the records whose
\* field is present and > 0: a 0 contributes as an absent value does, the
\* denominator is the count of present values (not day_count), and the
\* average is 0 when no value is present.
C4_AveragesOverPresent ==
    (stats # None /\ data_dict # EmptyDict) =>
        LET r == stats[1]
            values == DictValues(data_dict)
            w == [i \in 1..Len(values) |->
                     IF values[i].weight = None THEN 0 ELSE values[i].weight[1]]
            b == [i \in 1..Len(values) |->
                     IF values[i].blood_sugar = None THEN 0 ELSE values[i].blood_sugar[1]]
            W == {i \in 1..Len(values) : w[i] > 0}
            B == {i \in 1..Len(values) : b[i] > 0}
            z == get_summary_stats(ZeroAsAbsent(data_dict))
        IN /\ r.avg_weight = MeanOf(W, w)
           /\ r.avg_blood_sugar = MeanOf(B, b)
           /\ z.avg_weight = r.avg_weight
           /\ z.avg_blood_sugar = r.avg_blood_sugar
           /\ z.total_days = r.total_days

\* two records were aggregated, one with weight 0 and one with weight 70.0,
\* and the average is 70.0
C4_Witness ==
    /\ stats # None
    /\ Len(data_dict) = 2
    /\ data_dict[1].val.weight = Some(0)
    /\ data_dict[2].val.weight = Some(700)
    /\ data_dict[1].val.blood_sugar = None
    /\ data_dict[2].val.blood_sugar = Some(0)
    /\ stats[1].avg_weight = [num |-> 700, den |-> 1]
    /\ stats[1].avg_blood_sugar = [num |-> 0, den |-> 1]

\* the day number of a date key
KeyDay(k) == ToOrdinal(strptime(k).date)

\* C3: weight_latest is the weight of the latest-dated record with a present
\* weight, and weight_change is that weight minus the weight of the
\* earliest-dated such record when more than one weight is present, else 0,
\* whatever the order in which the dates were saved.
C3_OrderIndependent ==
    tracker_data # EmptyDict =>
        LET r == get_summary_stats(tracker_data)
            P == {i \in 1..Len(tracker_data) : tracker_data[i].val.weight # None}
            last == CHOOSE i \in P :
                        \A j \in P : KeyDay(tracker_data[j].key) <= KeyDay(tracker_data[i].key)
            first == CHOOSE i \in P :
                        \A j \in P : KeyDay(tracker_data[i].key) <= KeyDay(tracker_data[j].key)
        IN IF P = {} THEN r.latest_weight = 0 /\ r.weight_change = 0
           ELSE /\ r.latest_weight = tracker_data[last].val.weight[1]
                /\ r.weight_change =
                       IF Cardinality(P) > 1
                       THEN tracker_data[last].val.weight[1]
                            - tracker_data[first].val.weight[1]
                       ELSE 0

\* the sum of field total over the rows of a weekly summary
RECURSIVE RowSum(_, _)
RowSum(rows, field) ==
    IF rows = <<>> THEN 0
    ELSE rows[1].week_stats[field] + RowSum(Tail(rows), field)

C6_RoundTrip ==
    file.exists =>
        LET reloaded == load_data(file)
        IN /\ Len(reloaded) = Len(tracker_data)
           /\ \A i \in 1..Len(tracker_data) :
                 /\ reloaded[i].key = tracker_data[i].key
                 /\ reloaded[i].val = tracker_data[i].val
                 /\ (tracker_data[i].val.weight = None => reloaded[i].val.weight = None)
                 /\ (tracker_data[i].val.blood_sugar = None
                        => reloaded[i].val.blood_sugar = None)
           /\ get_summary_stats(reloaded) = get_summary_stats(tracker_data)

\* a saved set holds a record without weight and one with a weight
C6_Witness ==
    /\ file.exists
    /\ \E i, j \in 1..Len(tracker_data) :
          /\ tracker_data[i].val.weight = None
          /\ tracker_data[i].val.blood_sugar = None
          /\ tracker_data[j].val.weight # None
    /\ load_data(file) = tracker_data

\* the record a submitted form stands for
Submitted(date_str, f, r) ==
    /\ r.date = date_str
    /\ r.treadmill_time = f.treadmill_time
    /\ r.steps = f.steps
    /\ r.lunch_walk_time = f.lunch_walk_time
    /\ r.strength_training = f.strength_training
    /\ r.weight = (IF f.weight \in {None, Some(0)} THEN None ELSE f.weight)
    /\ r.blood_sugar = (IF f.blood_sugar \in {None, Some(0)} THEN None ELSE f.blood_sugar)
    /\ r.mood_energy = f.mood_energy

\* C8: a save leaves exactly one record per saved date, keyed by that date;
\* the record of the saved date equals in every field the values just saved
\* (nothing of the earlier record survives) and the records of all other
\* dates are unchanged.
C8_SaveReplaces ==
    [][tracker_data' # tracker_data =>
         LET k == strftime(selected_date')
             new == tracker_data'
         IN /\ \A i, j \in 1..Len(new) : new[i].key = new[j].key => i = j
            /\ DictKeys(new) = DictKeys(tracker_data) \cup {k}
            /\ Submitted(k, form', DictGet(new, k))
            /\ \A k2 \in DictKeys(tracker_data) \ {k} :
                  DictGet(new, k2) = DictGet(tracker_data, k2)]_vars

\* the first of two saved dates was saved again, without weight, after the
\* second one
C8_Witness ==
    /\ Len(tracker_data) = 2
    /\ tracker_data[1].key = strftime(selected_date)
    /\ form.weight = None
    /\ tracker_data[1].val.weight = None
    /\ tracker_data[1].val.treadmill_time = form.treadmill_time
    /\ tracker_data[2].val.weight # None

\* the sum of a sequence of fractions
RECURSIVE RatSum(_)
RatSum(qs) == IF qs = <<>> THEN [num |-> 0, den |-> 1] ELSE RatAdd(qs[1], RatSum(Tail(qs)))

\* the composite exercise time of a record set, against its totals and
\* against the per-day figures of its records
CompositeAgrees(dict) ==
    LET r == get_summary_stats(dict)
        values == DictValues(dict)
        t == r.total_exercise_time
    IN /\ t.num * 100 =
              (100 * r.total_treadmill + r.total_steps + 100 * r.total_lunch_walks) * t.den
       /\ t = RatSum([i \in 1..Len(values) |-> total_day_exercise(values[i])])
       /\ t = RatSum([i \in 1..Len(values) |-> total_exercise(values[i])])
       /\ \A i \in 1..Len(values) :
             total_day_exercise(values[i]).num * 100 =
                 (100 * values[i].treadmill_time + values[i].steps
                  + 100 * values[i].lunch_walk_time) * total_day_exercise(values[i]).den

\* C9: for every non-empty record set exercise_time_total equals
\* treadmill_total + steps_total/100 + lunch_walk_total, and equals the sum of
\* the per-day composite figures of the weekly breakdown and of the all-time
\* series: the same divisor 100 in the aggregate and in every per-day figure.
C9_CompositeExercise ==
    tracker_data # EmptyDict =>
        /\ CompositeAgrees(tracker_data)
        /\ \A w \in {tracker_data[i].val.week : i \in 1..Len(tracker_data)} :
              LET week_data == WeekData(tracker_data, w)
              IN week_data # EmptyDict => CompositeAgrees(week_data)

\* two records with steps are stored: 250 + 1000 steps make 12.5 minutes
C9_Witness ==
    /\ Len(tracker_data) >= 2
    /\ get_summary_stats(tracker_data).total_steps = 1250
    /\ get_summary_stats(tracker_data).total_exercise_time.den = 2

\* C10: every stored record's week field equals get_week_number of its date
\* key, and every stored record with strength_training true has week >= 3.
C10_WeekAndStrength ==
    \A i \in 1..Len(tracker_data) :
        LET data == tracker_data[i].val
            w == get_week_number(StrArg(tracker_data[i].key))
        IN /\ ~w.raised
           /\ data.week = w.value
           /\ (data.strength_training => data.week >= 3)
           /\ (data.week < 3 => ~data.strength_training)

\* a week-1 date was saved with the checkbox value TRUE and a date of week 3
\* or later was saved with strength training done
C10_Witness ==
    /\ \E i \in 1..Len(tracker_data) :
          /\ tracker_data[i].val.week = 1
          /\ tracker_data[i].val.treadmill_time = 30
          /\ ~tracker_data[i].val.strength_training
    /\ \E i \in 1..Len(tracker_data) :
          /\ tracker_data[i].val.week >= 3
          /\ tracker_data[i].val.strength_training

\* C11: every record saved through the daily entry workflow (any date from
\* the program start date to the program end date inclusive) is included in
\* the weekly view of exactly one week index in 1..30, and that index is the
\* record's stored week: the weekly view of week N holds exactly the stored
\* records whose week field is N.
C11_WeeklyCoverage ==
    /\ \A n \in 1..ProgramWeeks :
          DictKeys(WeekData(tracker_data, n)) =
              {tracker_data[i].key : i \in {j \in 1..Len(tracker_data) :
                                               tracker_data[j].val.week = n}}
    /\ \A i \in 1..Len(tracker_data) :
          {n \in 1..ProgramWeeks : HasKey(WeekData(tracker_data, n), tracker_data[i].key)}
              = {tracker_data[i].val.week}

====
